---- MODULE Spec2Model ----
(***************************************************************************)
(* Model of the MIDI-to-WAV pipeline of MusicScore_QuOM (1st_ver):         *)
(*   play_midi.extract_midi_data   the event extractor                     *)
(*   music_engine.Synthesizer      mixing, effects chain, PCM encoding     *)
(* Numbers that are Python floats in the source are modelled as exact      *)
(* values: the extractor's clock counts ticks (a fixed fraction of a       *)
(* second), the renderer's times and samples are exact rationals <<n, d>>  *)
(* (d > 0, lowest terms).  Float rounding is not modelled.                 *)
(***************************************************************************)
EXTENDS Integers, Sequences, FiniteSets, TLC

\* ---------------------------------------------------------------- bounds
\* Longest event stream fed to extract_midi_data.
MaxEvents == 4

\* MIDI keys that occur in the modelled streams (a sample of 0..127).
Keys == {60, 69}
\* msg.time values, in ticks.
Deltas == {0, 1}
\* msg.velocity values (0 is the zero-velocity-off convention).
Velocities == {0, 64}

VARIABLES
    pc,             \* extract_midi_data: "open", "loop" or "done"
    result,         \* what extract_midi_data returned: "pending", "none", "score"
    current_time,   \* play_midi.py:31
    active_notes,   \* play_midi.py:35, a function key -> start tick
    notes,          \* my_score.notes
    count,          \* play_midi.py:37
    hist,           \* the messages consumed so far, in order (history variable)
    rpc,            \* render_track: "idle", "start", "mix", "effects", "returned", "raised"
    track,          \* the notes handed to render_track
    sample_rate,    \* Synthesizer.sample_rate
    oscillator,     \* Synthesizer.oscillator
    effects,        \* Synthesizer.effects
    mix_buffer,     \* music_engine.py:102
    n_mixed,        \* notes already passed to _mix_note (loop of line 103)
    n_applied,      \* effects already applied (loop of line 107)
    audio_bytes,    \* what _buffer_to_bytes produced
    error,          \* the exception that ended the render, or "none"
    broke,          \* some _mix_note left its loop by the break of line 125 (history)
    prev_buffer,    \* mix_buffer as it was before the last effect ran (history)
    wav_file,       \* save_to_wav's output file: "absent", "open" or "closed"
    wav_frames,     \* the frames written to the output file
    note_name,      \* Note.get_freq: its argument name, a sequence of characters
    note_freq,      \* Note.get_freq: what it returned, or "pending"
    loop_in,        \* one _mix_note call: the note's and the synthesizer's numbers
    loop_i,         \* _mix_note: the loop index i of line 124
    loop_out,       \* _mix_note: wave and env of the last iteration
    midi_path,      \* MidiToWavGUI.midi_path
    btn_generate,   \* state of MidiToWavGUI.btn_generate
    btn_visualize,  \* state of MidiToWavGUI.btn_visualize
    btn_play,       \* state of MidiToWavGUI.btn_play
    threads,        \* the generate_audio_logic threads: thread -> position
    after_queue,    \* callbacks scheduled with root.after(0, ...), oldest first
    callbacks       \* thread -> number of its callbacks Tk has run (history)

xvars == <<pc, result, current_time, active_notes, notes, count, hist>>
rvars == <<rpc, track, sample_rate, oscillator, effects, mix_buffer, n_mixed,
           n_applied, audio_bytes, error, broke, prev_buffer>>
fvars == <<wav_file, wav_frames>>
pvars == <<note_name, note_freq>>
lvars == <<loop_in, loop_i, loop_out>>
gvars == <<midi_path, btn_generate, btn_visualize, btn_play, threads, after_queue,
           callbacks>>
vars == <<xvars, rvars, fvars, pvars, lvars, gvars>>

\* ------------------------------------------------------------ rationals
RECURSIVE GCD(_, _)
GCD(a, b) == IF b = 0 THEN a ELSE GCD(b, a % b)

Abs(x) == IF x < 0 THEN -x ELSE x

\* The rational n/d (d # 0) as a pair in lowest terms with a positive denominator.
Rat(n, d) ==
    LET g == GCD(Abs(n), Abs(d))
        s == IF d < 0 THEN -1 ELSE 1
    IN  <<(s * n) \div g, (s * d) \div g>>

RInt(n) == <<n, 1>>
RAdd(x, y) == Rat(x[1] * y[2] + y[1] * x[2], x[2] * y[2])
RNeg(x) == <<-x[1], x[2]>>
RSub(x, y) == RAdd(x, RNeg(y))
RMul(x, y) == Rat(x[1] * y[1], x[2] * y[2])
RDiv(x, y) == Rat(x[1] * y[2], x[2] * y[1])
RLt(x, y) == x[1] * y[2] < y[1] * x[2]
RLe(x, y) == x[1] * y[2] <= y[1] * x[2]
RAbs(x) == <<Abs(x[1]), x[2]>>
\* Python's int() of a float: truncation toward zero.
RTrunc(x) == IF x[1] >= 0 THEN x[1] \div x[2] ELSE -((-x[1]) \div x[2])

\* ------------------------------------------------------------ Note
\* Note.midi_to_freq: 440.0 * 2 ** ((midi_number - 69) / 12).  The value is
\* irrational for most keys, so it is kept as the pair <<440, e>> that stands
\* for 440 * 2^(e/12).
midi_to_freq(midi_number) == <<440, midi_number - 69>>

\* Note.__init__: the four fields, velocity defaulting to 0.5; nothing is validated.
Note(frequency, start_time, duration) ==
    [frequency |-> frequency, start_time |-> start_time,
     duration |-> duration, velocity |-> <<1, 2>>]

\* ------------------------------------------------------------ extractor
Msgs ==
    [type : {"note_on"}, note : Keys, velocity : Velocities, time : Deltas]
    \cup [type : {"note_off"}, note : Keys, velocity : {0}, time : Deltas]
    \cup [type : {"control_change"}, note : {0}, velocity : {0}, time : Deltas]

\* No output file has been opened.
FileIdle ==
    /\ wav_file = "absent"
    /\ wav_frames = <<>>

\* Note.get_freq is not being called.
ParseIdle ==
    /\ note_name = <<>>
    /\ note_freq = "pending"

\* No _mix_note loop is being followed sample by sample.
LoopIdle ==
    /\ loop_in = <<>>
    /\ loop_i = 0
    /\ loop_out = <<>>

\* No window is open.
GuiIdle ==
    /\ midi_path = ""
    /\ btn_generate = "normal"
    /\ btn_visualize = "disabled"
    /\ btn_play = "disabled"
    /\ threads = <<>>
    /\ after_queue = <<>>
    /\ callbacks = <<>>

\* No render is in progress (the state of a fresh Score's Synthesizer).
RenderIdle ==
    /\ rpc = "idle"
    /\ track = <<>>
    /\ sample_rate = 44100
    /\ oscillator = "sine"
    /\ effects = <<>>
    /\ mix_buffer = <<>>
    /\ n_mixed = 0
    /\ n_applied = 0
    /\ audio_bytes = <<>>
    /\ error = "none"
    /\ broke = FALSE
    /\ prev_buffer = <<>>

Init ==
    /\ pc = "open"
    /\ result = "pending"
    /\ current_time = 0
    /\ active_notes = <<>>
    /\ notes = <<>>
    /\ count = 0
    /\ hist = <<>>
    /\ RenderIdle
    /\ FileIdle /\ ParseIdle /\ LoopIdle /\ GuiIdle

\* mido.MidiFile raises FileNotFoundError: the function returns None.
OpenMissing ==
    /\ pc = "open"
    /\ pc' = "done"
    /\ result' = "none"
    /\ UNCHANGED <<current_time, active_notes, notes, count, hist>>
    /\ UNCHANGED <<rvars, fvars, pvars, lvars, gvars>>

\* The file opens; the Score is created empty and the loop state initialised.
OpenFile ==
    /\ pc = "open"
    /\ pc' = "loop"
    /\ current_time' = 0
    /\ active_notes' = <<>>
    /\ notes' = <<>>
    /\ count' = 0
    /\ UNCHANGED <<result, hist>>
    /\ UNCHANGED <<rvars, fvars, pvars, lvars, gvars>>

\* dict.pop(key): the mapping without key.
Pop(d, k) == [x \in DOMAIN d \ {k} |-> d[x]]

\* d[k] = v on a dict.
Put(d, k, v) == [x \in DOMAIN d \cup {k} |-> IF x = k THEN v ELSE d[x]]

\* Score.add_note: append, unconditionally.
add_note(ns, n) == Append(ns, n)

\* The branch of line 47: note_on with velocity > 0.
OnBranch_keep_first(msg, now) ==
    /\ active_notes' =
         IF msg.note \in DOMAIN active_notes THEN active_notes
         ELSE Put(active_notes, msg.note, now)
    /\ UNCHANGED <<notes, count>>

OnBranch(msg, now) ==
    /\ active_notes' = Put(active_notes, msg.note, now)
    /\ UNCHANGED <<notes, count>>

\* The branch of line 52: note_off, or note_on with velocity 0.
OffBranch_no_lookup(msg, now) ==
    LET start_t == IF msg.note \in DOMAIN active_notes
                   THEN active_notes[msg.note] ELSE 0
        duration == now - start_t
        freq == midi_to_freq(msg.note)
    IN  /\ active_notes' = Pop(active_notes, msg.note)
        /\ notes' = add_note(notes, Note(freq, start_t, duration))
        /\ count' = count + 1

OffBranch_no_pop(msg, now) ==
    IF msg.note \in DOMAIN active_notes
    THEN LET start_t == active_notes[msg.note]
             duration == now - start_t
             freq == midi_to_freq(msg.note)
         IN  /\ active_notes' = active_notes
             /\ notes' = add_note(notes, Note(freq, start_t, duration))
             /\ count' = count + 1
    ELSE UNCHANGED <<active_notes, notes, count>>

OffBranch(msg, now) ==
    IF msg.note \in DOMAIN active_notes
    THEN LET start_t == active_notes[msg.note]
             duration == now - start_t
             freq == midi_to_freq(msg.note)
         IN  /\ active_notes' = Pop(active_notes, msg.note)
             /\ notes' = add_note(notes, Note(freq, start_t, duration))
             /\ count' = count + 1
    ELSE UNCHANGED <<active_notes, notes, count>>

\* One iteration of "for msg in mid" (lines 40-64).
ProcessMsg(msg) ==
    /\ pc = "loop"
    /\ Len(hist) < MaxEvents
    /\ current_time' = current_time + msg.time
    /\ hist' = Append(hist, msg)
    /\ IF msg.type = "note_on" /\ msg.velocity > 0
       THEN OnBranch(msg, current_time')
       ELSE IF msg.type = "note_off" \/ (msg.type = "note_on" /\ msg.velocity = 0)
       THEN OffBranch(msg, current_time')
       ELSE UNCHANGED <<active_notes, notes, count>>
    /\ UNCHANGED <<pc, result>>
    /\ UNCHANGED <<rvars, fvars, pvars, lvars, gvars>>

\* The stream ends: lines 66-67 return the score; active_notes is discarded.
EndOfStream ==
    /\ pc = "loop"
    /\ pc' = "done"
    /\ result' = "score"
    /\ UNCHANGED <<current_time, active_notes, notes, count, hist>>
    /\ UNCHANGED <<rvars, fvars, pvars, lvars, gvars>>

Next ==
    \/ OpenMissing
    \/ OpenFile
    \/ \E msg \in Msgs : ProcessMsg(msg)
    \/ EndOfStream

Spec == Init /\ [][Next]_vars

\* ------------------------------------------------- claims on the extractor
\* What the claims say about a stream, read off the history alone.
OnEvent(m) == m.type = "note_on" /\ m.velocity > 0
OffEvent(m) == m.type = "note_off" \/ (m.type = "note_on" /\ m.velocity = 0)

\* The running clock after the first j messages of h.
RECURSIVE Clock(_, _)
Clock(h, j) == IF j = 0 THEN 0 ELSE Clock(h, j - 1) + h[j].time

\* The on-events for key k before message j that no off-event for k has closed.
OpenOns(h, j, k) ==
    {p \in 1..(j - 1) :
        /\ OnEvent(h[p]) /\ h[p].note = k
        /\ \A q \in (p + 1)..(j - 1) : ~(OffEvent(h[q]) /\ h[q].note = k)}

\* Key k is held (in the active map) when message j arrives.
HeldAt(h, j, k) == OpenOns(h, j, k) # {}

\* The latest on-event for k before message j.
LastOn(h, j, k) == CHOOSE p \in OpenOns(h, j, k) : \A q \in OpenOns(h, j, k) : q <= p

\* The notes the first j messages of h must have produced, in off-event order.
RECURSIVE ExpectedNotes(_, _)
ExpectedNotes(h, j) ==
    IF j = 0 THEN <<>>
    ELSE LET before == ExpectedNotes(h, j - 1)
             k == h[j].note
         IN  IF OffEvent(h[j]) /\ HeldAt(h, j, k)
             THEN Append(before,
                         [frequency |-> midi_to_freq(k),
                          start_time |-> Clock(h, LastOn(h, j, k)),
                          duration |-> Clock(h, j) - Clock(h, LastOn(h, j, k)),
                          velocity |-> <<1, 2>>])
             ELSE before

\* The active map the history must have left.
ExpectedActive(h) ==
    [k \in {x \in Keys : HeldAt(h, Len(h) + 1, x)} |->
        Clock(h, LastOn(h, Len(h) + 1, k))]

Count(S) == Cardinality(S)
OnIdx(h) == {j \in 1..Len(h) : OnEvent(h[j])}
OffIdx(h) == {j \in 1..Len(h) : OffEvent(h[j])}
OrphanIdx(h) == {j \in OffIdx(h) : ~HeldAt(h, j, h[j].note)}
RetriggerIdx(h) == {j \in OnIdx(h) : HeldAt(h, j, h[j].note)}

\* C1: after any stream prefix the score holds exactly one note per off-event
\* whose key was active, in off-event order, with start_time the recorded on
\* time, duration the clock minus that time and frequency midi_to_freq(key);
\* the clock is the sum of the deltas and the emitted keys have left the map.
C1_NotesAreThePairedOffs ==
    /\ notes = ExpectedNotes(hist, Len(hist))
    /\ count = Len(notes)
    /\ current_time = Clock(hist, Len(hist))
    /\ active_notes = ExpectedActive(hist)

\* Two notes emitted in off-event order although the second started first.
C1_Witness ==
    /\ pc = "done" /\ result = "score"
    /\ Len(notes) = 2
    /\ notes[1].start_time > notes[2].start_time
    /\ notes[1].frequency # notes[2].frequency

\* C2: an orphan off leaves score, map and count alone, advances the clock and
\* the loop goes on; the end of the stream adds no note for the keys still
\* held; the notes never outnumber the on-events nor the off-events.
C2_Step ==
    /\ (Len(hist') = Len(hist) + 1 /\ Len(hist') \in OrphanIdx(hist')) =>
         /\ notes' = notes /\ active_notes' = active_notes /\ count' = count
         /\ current_time' = current_time + hist'[Len(hist')].time
         /\ pc' = "loop"
    /\ (pc = "loop" /\ pc' = "done") =>
         /\ notes' = notes /\ result' = "score"
    /\ Len(notes') <= Count(OnIdx(hist'))
    /\ Len(notes') <= Count(OffIdx(hist'))

C2_OrphanOffAndDanglingOn == [][C2_Step]_vars

\* A finished extraction that saw an orphan off and ended with a key held.
C2_Witness ==
    /\ pc = "done" /\ result = "score"
    /\ OrphanIdx(hist) # {}
    /\ DOMAIN active_notes # {}
    /\ Len(notes) = 1

\* C3: a note_on for a key already held emits nothing and replaces the start
\* time by the current clock; the next off for the key emits exactly one note,
\* starting at the latest note_on; every on-event is then either emitted,
\* still held, or overwritten by a retrigger (so the overwritten ones never
\* yield a note).
C3_Step ==
    LET j == Len(hist')
        m == hist'[j]
    IN  /\ (Len(hist') = Len(hist) + 1 /\ j \in RetriggerIdx(hist')) =>
             /\ notes' = notes
             /\ DOMAIN active_notes' = DOMAIN active_notes
             /\ active_notes'[m.note] = Clock(hist', j)
             /\ \A k \in DOMAIN active_notes \ {m.note} :
                    active_notes'[k] = active_notes[k]
        /\ (Len(hist') = Len(hist) + 1 /\ OffEvent(m) /\ HeldAt(hist', j, m.note)) =>
             /\ Len(notes') = Len(notes) + 1
             /\ SubSeq(notes', 1, Len(notes)) = notes
             /\ notes'[Len(notes')].start_time = Clock(hist', LastOn(hist', j, m.note))
             /\ m.note \notin DOMAIN active_notes'
        /\ pc' = "loop" =>
             Len(notes') + Count(DOMAIN active_notes') + Count(RetriggerIdx(hist'))
                 = Count(OnIdx(hist'))

C3_RetriggerKeepsLatestStart == [][C3_Step]_vars

\* on k, later on k again, then off k: one note, starting at the second on.
C3_Witness ==
    /\ Len(hist) = 3 /\ Len(notes) = 1
    /\ RetriggerIdx(hist) = {2}
    /\ OffEvent(hist[3]) /\ hist[3].note = hist[2].note
    /\ Clock(hist, 1) < Clock(hist, 2)
    /\ notes[1].start_time = Clock(hist, 2)

\* C4: every note of the score has a positive duration.
C4_DurationsPositive ==
    \A i \in 1..Len(notes) : notes[i].duration > 0

\* ================================================================ render
\* Notes handed to render_track in one call.
MaxNotes == 2

Zero == <<0, 1>>
One == <<1, 1>>
Half == <<1, 2>>

\* Synthesizer.sample_rate values (the default is 44100).
SampleRates == {1, 2, 4}
\* Synthesizer.oscillator values; "noise" stands for any unknown kind.
Oscillators == {"sine", "square", "saw", "noise"}
\* Note.start_time and Note.duration values, in seconds.
StartTimes == {Zero, Half}
Durations == {Half, One}
\* (frequency in Hz, velocity) of the modelled notes.
Timbres == {<<<<1, 3>>, Half>>, <<One, One>>}

NoteDomain ==
    {[frequency |-> tb[1], start_time |-> s, duration |-> d, velocity |-> tb[2]] :
        tb \in Timbres, s \in StartTimes, d \in Durations}

SeqsUpTo(S, n) == UNION {[1..k -> S] : k \in 0..n}

\* x - floor(x): Python's x % 1.0.
RFrac(x) == Rat(x[1] % x[2], x[2])

\* sin over half a period, u in [0, 1] the fraction of the half period.  The
\* float math.sin is modelled by Bhaskara's rational approximation
\* 16u(1-u) / (5 - 4u(1-u)): exact where the sine is rational (0, 1/2, 1),
\* within 0.002 elsewhere, and of the right sign and symmetry everywhere.
HalfWave(u) ==
    LET p == RMul(u, RSub(One, u))
    IN  RDiv(RMul(RInt(16), p), RSub(RInt(5), RMul(RInt(4), p)))

\* math.sin(2 * math.pi * x), x in turns.
SinTurns(x) ==
    LET ph == RFrac(x)
    IN  IF RLt(ph, Half) THEN HalfWave(RMul(RInt(2), ph))
        ELSE RNeg(HalfWave(RMul(RInt(2), RSub(ph, Half))))

\* The waveform logic of _mix_note (lines 130-146) at t seconds into the note.
Oscillator(osc, frequency, t) ==
    IF osc = "sine" THEN SinTurns(RMul(frequency, t))
    ELSE IF osc = "square"
    THEN LET val == SinTurns(RMul(frequency, t))
         IN  IF RLt(Zero, val) THEN One ELSE RNeg(One)
    ELSE IF osc = "saw"
    THEN RSub(RMul(RInt(2), RFrac(RMul(t, frequency))), One)
    ELSE Zero

\* The release ramp with its sign slipped, (i - dur_samples) / release.
Envelope_rising_release(i, dur_samples, attack, release) ==
    IF i < attack THEN Rat(i, attack)
    ELSE IF i > dur_samples - release THEN Rat(i - dur_samples, release)
    ELSE One

\* The envelope logic of _mix_note (lines 149-151).
Envelope(i, dur_samples, attack, release) ==
    IF i < attack THEN Rat(i, attack)
    ELSE IF i > dur_samples - release THEN Rat(dur_samples - i, release)
    ELSE One

\* Line 155.
VolAdjustment(osc) == IF osc \in {"square", "saw"} THEN <<3, 20>> ELSE <<3, 10>>

\* int(seconds * sample_rate), lines 98, 114, 115, 118, 119 and 49.
Samples(seconds, sr) == RTrunc(RMul(seconds, RInt(sr)))

\* What sample i of the note adds to the buffer (the right-hand side of line 157).
Contribution(note, sr, osc, i) ==
    LET dur_samples == Samples(note.duration, sr)
        attack == Samples(<<1, 100>>, sr)
        release == Samples(<<1, 100>>, sr)
        t == Rat(i, sr)
        wave == Oscillator(osc, note.frequency, t)
        env == Envelope(i, dur_samples, attack, release)
    IN  RMul(RMul(RMul(wave, env), note.velocity), VolAdjustment(osc))

\* buffer[start_idx + i] += ... (line 157).
Accumulate_overwrite(old, contribution) == contribution

Accumulate(old, contribution) == RAdd(old, contribution)

\* The loop of _mix_note from sample i on; broke records the break of line 125.
RECURSIVE MixLoop(_, _, _, _, _)
MixLoop(buffer, note, sr, osc, i) ==
    LET start_idx == Samples(note.start_time, sr)
        dur_samples == Samples(note.duration, sr)
    IN  IF i >= dur_samples THEN [buffer |-> buffer, broke |-> FALSE]
        ELSE IF start_idx + i >= Len(buffer) THEN [buffer |-> buffer, broke |-> TRUE]
        ELSE MixLoop([buffer EXCEPT ![start_idx + i + 1] =
                          Accumulate(@, Contribution(note, sr, osc, i))],
                     note, sr, osc, i + 1)

\* Synthesizer._mix_note.
mix_note(buffer, note, sr, osc) == MixLoop(buffer, note, sr, osc, 0)

NoteEnd(n) == RAdd(n.start_time, n.duration)

\* max(notes, key=lambda n: n.start_time + n.duration): the first note whose end
\* no other note exceeds.
LastNote(ns) ==
    LET best == {i \in 1..Len(ns) : \A j \in 1..Len(ns) : RLe(NoteEnd(ns[j]), NoteEnd(ns[i]))}
    IN  ns[CHOOSE i \in best : \A j \in best : i <= j]

\* Lines 96-98.
total_samples_of_final_note(ns, sr) ==
    LET last_note == ns[Len(ns)]
    IN  Samples(RAdd(RAdd(last_note.start_time, last_note.duration), Half), sr)

total_samples(ns, sr) ==
    LET last_note == LastNote(ns)
    IN  Samples(RAdd(RAdd(last_note.start_time, last_note.duration), Half), sr)

\* ------------------------------------------------------------ effects
\* DelayEffect.delay_seconds, DelayEffect.decay, DistortionEffect.drive values.
DelayTimes == {Zero, Half, One}
Decays == {Half}
Drives == {Zero, Half, One}
EffectDomain ==
    [kind : {"delay"}, delay_seconds : DelayTimes, decay : Decays, drive : {Zero}]
    \cup [kind : {"distortion"}, delay_seconds : {Zero}, decay : {Zero}, drive : Drives]

\* delayed_sample = original_audio[i - delay_samples] (line 58).
DelayTap_live(buffer, original_audio, j) == buffer[j + 1]

DelayTap(buffer, original_audio, j) == original_audio[j + 1]

\* The loop of DelayEffect.apply (lines 55-59) from index i on.
RECURSIVE DelayLoop(_, _, _, _, _)
DelayLoop(buffer, original_audio, delay_samples, decay, i) ==
    IF i >= Len(buffer) THEN buffer
    ELSE IF i >= delay_samples
    THEN LET delayed_sample == DelayTap(buffer, original_audio, i - delay_samples)
         IN  DelayLoop([buffer EXCEPT ![i + 1] = RAdd(@, RMul(delayed_sample, decay))],
                       original_audio, delay_samples, decay, i + 1)
    ELSE DelayLoop(buffer, original_audio, delay_samples, decay, i + 1)

\* DelayEffect.apply.
DelayApply(e, buffer, sr) ==
    LET delay_samples == Samples(e.delay_seconds, sr)
        original_audio == buffer
    IN  [buffer |-> DelayLoop(buffer, original_audio, delay_samples, e.decay, 0),
         error |-> "none"]

\* Lines 71-74: hard clip to +-threshold.
HardClip_upper_only(x, threshold) ==
    IF RLt(threshold, x) THEN threshold ELSE x

HardClip(x, threshold) ==
    IF RLt(threshold, x) THEN threshold
    ELSE IF RLt(x, RNeg(threshold)) THEN RNeg(threshold)
    ELSE x

\* The loop of DistortionEffect.apply (lines 69-77) from index i on.  Dividing
\* a float by 0.0 raises ZeroDivisionError, after the clip of that sample.
RECURSIVE DistortionLoop(_, _, _)
DistortionLoop(buffer, threshold, i) ==
    IF i >= Len(buffer) THEN [buffer |-> buffer, error |-> "none"]
    ELSE LET clipped == HardClip(buffer[i + 1], threshold)
         IN  IF threshold[1] = 0
             THEN [buffer |-> [buffer EXCEPT ![i + 1] = clipped],
                   error |-> "ZeroDivisionError"]
             ELSE DistortionLoop([buffer EXCEPT ![i + 1] = RDiv(clipped, threshold)],
                                 threshold, i + 1)

\* DistortionEffect.apply.
DistortionApply(e, buffer, sr) ==
    LET threshold == RSub(One, e.drive)
    IN  DistortionLoop(buffer, threshold, 0)

\* effect.apply(mix_buffer, self.sample_rate), dispatched on the effect's class.
EffectApply(e, buffer, sr) ==
    IF e.kind = "delay" THEN DelayApply(e, buffer, sr)
    ELSE DistortionApply(e, buffer, sr)

\* ------------------------------------------------------------ encoding
Int16Scale == 32767

\* max(min(sample, 1.0), -1.0), line 162.
Clamp(sample) ==
    LET m == IF RLt(One, sample) THEN One ELSE sample
    IN  IF RLt(m, RNeg(One)) THEN RNeg(One) ELSE m

\* int(sample * 32767), line 163.
Quantize_floor(sample) ==
    LET x == RMul(sample, RInt(Int16Scale)) IN x[1] \div x[2]

Quantize(sample) == RTrunc(RMul(sample, RInt(Int16Scale)))

\* struct.pack('<h', v): two bytes, low first, two's complement; struct.error
\* (here the empty sequence) when v is no signed 16-bit value.
Pack_h(v) ==
    IF v < -32768 \/ v > 32767 THEN <<>>
    ELSE <<v % 256, (v % 65536) \div 256>>

\* The loop of _buffer_to_bytes (lines 161-163) from sample i on.
RECURSIVE EncodeLoop(_, _, _)
EncodeLoop(float_buffer, out, i) ==
    IF i >= Len(float_buffer) THEN [bytes |-> out, error |-> "none"]
    ELSE LET sample == Clamp(float_buffer[i + 1])
             packed == Pack_h(Quantize(sample))
         IN  IF packed = <<>> THEN [bytes |-> out, error |-> "struct.error"]
             ELSE EncodeLoop(float_buffer, out \o packed, i + 1)

\* Synthesizer._buffer_to_bytes.
buffer_to_bytes(float_buffer) == EncodeLoop(float_buffer, <<>>, 0)

\* ------------------------------------------------------------ render_track
\* "if not notes: return b''" (line 94).
RenderEmpty ==
    /\ rpc = "start"
    /\ track = <<>>
    /\ rpc' = "returned"
    /\ audio_bytes' = <<>>
    /\ UNCHANGED <<track, sample_rate, oscillator, effects, mix_buffer, n_mixed,
                   n_applied, error, broke, prev_buffer>>
    /\ UNCHANGED <<xvars, fvars, pvars, lvars, gvars>>

\* Lines 96-102: size and allocate the mix buffer.
Allocate ==
    /\ rpc = "start"
    /\ track # <<>>
    /\ mix_buffer' = [i \in 1..total_samples(track, sample_rate) |-> Zero]
    /\ n_mixed' = 0
    /\ rpc' = "mix"
    /\ UNCHANGED <<track, sample_rate, oscillator, effects, n_applied, audio_bytes,
                   error, broke, prev_buffer>>
    /\ UNCHANGED <<xvars, fvars, pvars, lvars, gvars>>

\* One iteration of "for note in notes" (lines 103-104).
MixNote ==
    /\ rpc = "mix"
    /\ n_mixed < Len(track)
    /\ LET r == mix_note(mix_buffer, track[n_mixed + 1], sample_rate, oscillator)
       IN  /\ mix_buffer' = r.buffer
           /\ broke' = (broke \/ r.broke)
    /\ n_mixed' = n_mixed + 1
    /\ rpc' = IF n_mixed' = Len(track) THEN "effects" ELSE "mix"
    /\ UNCHANGED <<track, sample_rate, oscillator, effects, n_applied, audio_bytes,
                   error, prev_buffer>>
    /\ UNCHANGED <<xvars, fvars, pvars, lvars, gvars>>

\* One iteration of "for effect in self.effects" (lines 107-108).
ApplyEffect ==
    /\ rpc = "effects"
    /\ n_applied < Len(effects)
    /\ LET r == EffectApply(effects[n_applied + 1], mix_buffer, sample_rate)
       IN  /\ mix_buffer' = r.buffer
           /\ error' = r.error
           /\ rpc' = IF r.error = "none" THEN "effects" ELSE "raised"
    /\ prev_buffer' = mix_buffer
    /\ n_applied' = n_applied + 1
    /\ UNCHANGED <<track, sample_rate, oscillator, effects, n_mixed, audio_bytes, broke>>
    /\ UNCHANGED <<xvars, fvars, pvars, lvars, gvars>>

\* Line 111: return self._buffer_to_bytes(mix_buffer).
Encode ==
    /\ rpc = "effects"
    /\ n_applied = Len(effects)
    /\ LET r == buffer_to_bytes(mix_buffer)
       IN  /\ audio_bytes' = r.bytes
           /\ error' = r.error
           /\ rpc' = IF r.error = "none" THEN "returned" ELSE "raised"
    /\ UNCHANGED <<track, sample_rate, oscillator, effects, mix_buffer, n_mixed,
                   n_applied, broke, prev_buffer>>
    /\ UNCHANGED <<xvars, fvars, pvars, lvars, gvars>>

\* The extractor's variables while a render is modelled on its own.
ExtractIdle ==
    /\ pc = "done"
    /\ result = "score"
    /\ current_time = 0
    /\ active_notes = <<>>
    /\ notes = <<>>
    /\ count = 0
    /\ hist = <<>>

\* render_track is called on a list of notes, with no effect configured.
InitRender ==
    /\ ExtractIdle
    /\ FileIdle /\ ParseIdle /\ LoopIdle /\ GuiIdle
    /\ rpc = "start"
    /\ track \in SeqsUpTo(NoteDomain, MaxNotes)
    /\ sample_rate \in SampleRates
    /\ oscillator \in Oscillators
    /\ effects = <<>>
    /\ mix_buffer = <<>>
    /\ n_mixed = 0
    /\ n_applied = 0
    /\ audio_bytes = <<>>
    /\ error = "none"
    /\ broke = FALSE
    /\ prev_buffer = <<>>

NextRender ==
    \/ RenderEmpty
    \/ Allocate
    \/ MixNote
    \/ Encode

SpecRender == InitRender /\ [][NextRender]_vars

\* Longest buffer and longest effects chain handed to the effects stage.
MaxBuffer == 3
MaxEffects == 1

\* Sample values, some of them outside [-1, 1].
SampleValues == {<<-3, 2>>, <<-1, 3>>, Zero, Half, <<5, 4>>}

\* The effects chain and the encoder run on a mixed buffer (lines 107-111).
InitEffects ==
    /\ ExtractIdle
    /\ FileIdle /\ ParseIdle /\ LoopIdle /\ GuiIdle
    /\ rpc = "effects"
    /\ track = <<>>
    /\ sample_rate \in {2}
    /\ oscillator = "sine"
    /\ effects \in SeqsUpTo(EffectDomain, MaxEffects)
    /\ mix_buffer \in SeqsUpTo(SampleValues, MaxBuffer)
    /\ n_mixed = 0
    /\ n_applied = 0
    /\ audio_bytes = <<>>
    /\ error = "none"
    /\ broke = FALSE
    /\ prev_buffer = mix_buffer

NextEffects ==
    \/ ApplyEffect
    \/ Encode

SpecEffects == InitEffects /\ [][NextEffects]_vars

\* ------------------------------------------------- claims on the renderer
ValidNote(n) == RLe(Zero, n.start_time) /\ RLt(Zero, n.duration)

\* floor(q * k) for a rational q >= 0 and an integer k >= 0.
FloorTimes(q, k) == (q[1] * k) \div q[2]

\* The latest end (start_time + duration) among the notes.
LatestEnd(ns) ==
    CHOOSE e \in {NoteEnd(ns[i]) : i \in 1..Len(ns)} :
        \A j \in 1..Len(ns) : RLe(NoteEnd(ns[j]), e)

\* C5: for a non-empty list of notes with start_time >= 0 and duration > 0 the
\* buffer has floor((latest end + 0.5) * sample_rate) samples, every note's
\* floor(start*rate) + floor(duration*rate) is at most that length, and no
\* _mix_note call leaves its loop by the out-of-bounds break.
C5_BufferHoldsEveryNote ==
    (/\ rpc \in {"mix", "effects", "returned"}
     /\ track # <<>>
     /\ \A k \in 1..Len(track) : ValidNote(track[k])) =>
        /\ Len(mix_buffer) =
             FloorTimes(RAdd(LatestEnd(track), Half), sample_rate)
        /\ \A k \in 1..Len(track) :
              FloorTimes(track[k].start_time, sample_rate)
                + FloorTimes(track[k].duration, sample_rate) <= Len(mix_buffer)
        /\ broke = FALSE

\* Two valid notes mixed, the first one ending last and filling samples.
C5_Witness ==
    /\ rpc = "effects" /\ n_mixed = 2 /\ Len(track) = 2
    /\ \A k \in 1..2 : ValidNote(track[k])
    /\ RLt(NoteEnd(track[2]), NoteEnd(track[1]))
    /\ RLt(Zero, track[1].start_time)
    /\ FloorTimes(track[1].duration, sample_rate) > 0
    /\ ~broke

\* The mixing stage of render_track (lines 96-104) as a function of the notes.
RECURSIVE MixAll(_, _, _, _, _)
MixAll(buffer, ns, sr, osc, k) ==
    IF k > Len(ns) THEN buffer
    ELSE MixAll(mix_note(buffer, ns[k], sr, osc).buffer, ns, sr, osc, k + 1)

RenderMix(ns, sr, osc) ==
    IF ns = <<>> THEN <<>>
    ELSE MixAll([i \in 1..total_samples(ns, sr) |-> Zero], ns, sr, osc, 1)

\* Sample i (from 0) of a buffer, silence past its end.
At(buffer, i) == IF i < Len(buffer) THEN buffer[i + 1] ELSE Zero

\* Note n covers buffer index i.
Covers(n, sr, i) ==
    /\ FloorTimes(n.start_time, sr) <= i
    /\ i < FloorTimes(n.start_time, sr) + FloorTimes(n.duration, sr)

\* The note's own contribution at buffer index i: a function of note and index.
Own(n, sr, osc, i) ==
    IF Covers(n, sr, i)
    THEN Contribution(n, sr, osc, i - FloorTimes(n.start_time, sr))
    ELSE Zero

RECURSIVE SumOwn(_, _, _, _, _)
SumOwn(ns, k, sr, osc, i) ==
    IF k = 0 THEN Zero
    ELSE RAdd(SumOwn(ns, k - 1, sr, osc, i), Own(ns[k], sr, osc, i))

Perms(n) == {p \in [1..n -> 1..n] : \A a, b \in 1..n : a # b => p[a] # p[b]}

\* C6: while and after mixing (notes with start_time >= 0), every buffer sample
\* is the sum of the own contributions of the notes mixed so far that cover
\* it; once all are mixed, every permutation of the list renders the same
\* buffer, and a two-note render is the sample-wise sum of the two one-note
\* renders.
C6_MixingIsAdditive ==
    rpc \in {"mix", "effects"} =>
        /\ \A i \in 0..(Len(mix_buffer) - 1) :
              mix_buffer[i + 1] = SumOwn(track, n_mixed, sample_rate, oscillator, i)
        /\ rpc = "effects" =>
              /\ \A p \in Perms(Len(track)) :
                    RenderMix([k \in 1..Len(track) |-> track[p[k]]],
                              sample_rate, oscillator) = mix_buffer
              /\ Len(track) = 2 =>
                    \A i \in 0..(Len(mix_buffer) - 1) :
                        mix_buffer[i + 1] =
                            RAdd(At(RenderMix(<<track[1]>>, sample_rate, oscillator), i),
                                 At(RenderMix(<<track[2]>>, sample_rate, oscillator), i))

\* Two different notes mixed that both sound at one buffer index.
C6_Witness ==
    /\ rpc = "effects" /\ Len(track) = 2
    /\ track[1] # track[2]
    /\ \E i \in 0..(Len(mix_buffer) - 1) :
          /\ Own(track[1], sample_rate, oscillator, i) # Zero
          /\ Own(track[2], sample_rate, oscillator, i) # Zero
          /\ Own(track[1], sample_rate, oscillator, i)
               # Own(track[2], sample_rate, oscillator, i)
          /\ mix_buffer[i + 1] # Zero

\* ------------------------------------------------- claims on the effects
\* The effect that ran last; prev_buffer and mix_buffer are its input and output.
LastEffect == effects[n_applied]
LastWas(kind) == n_applied >= 1 /\ effects[n_applied].kind = kind

\* C7: after DelayEffect.apply, with d = floor(delay_seconds * sample_rate),
\* sample i is orig[i] + orig[i-d] * decay for i >= d and orig[i] for i < d,
\* orig being the contents before the call; the length is unchanged.
C7_DelayIsOneTap ==
    LastWas("delay") =>
        LET d == FloorTimes(LastEffect.delay_seconds, sample_rate)
        IN  /\ Len(mix_buffer) = Len(prev_buffer)
            /\ error # "ZeroDivisionError"
            /\ \A i \in 0..(Len(prev_buffer) - 1) :
                  mix_buffer[i + 1] =
                      IF i >= d
                      THEN RAdd(prev_buffer[i + 1],
                                RMul(prev_buffer[i - d + 1], LastEffect.decay))
                      ELSE prev_buffer[i + 1]

\* A one-sample delay ran over three non-zero samples.
C7_Witness ==
    /\ LastWas("delay")
    /\ FloorTimes(LastEffect.delay_seconds, sample_rate) = 1
    /\ Len(prev_buffer) = 3
    /\ \A i \in 1..3 : prev_buffer[i] # Zero
    /\ mix_buffer[3] # prev_buffer[3]

\* C8 as stated: distortion with drive 0 leaves every buffer unchanged.
C8_DriveZeroIsIdentity ==
    (LastWas("distortion") /\ LastEffect.drive = Zero) => mix_buffer = prev_buffer

\* C8 as amended: distortion with drive 0 raises nothing, keeps the length,
\* leaves every sample of [-1, 1] unchanged and moves a sample above 1 to 1
\* and a sample below -1 to -1.
C8_DriveZeroClipsToUnit ==
    (LastWas("distortion") /\ LastEffect.drive = Zero) =>
        /\ error # "ZeroDivisionError"
        /\ Len(mix_buffer) = Len(prev_buffer)
        /\ \A i \in 1..Len(prev_buffer) :
              mix_buffer[i] =
                  IF RLt(One, prev_buffer[i]) THEN One
                  ELSE IF RLt(prev_buffer[i], <<-1, 1>>) THEN <<-1, 1>>
                  ELSE prev_buffer[i]

\* Distortion with drive 0 ran over samples inside, above and below [-1, 1].
C8_Witness ==
    /\ LastWas("distortion") /\ LastEffect.drive = Zero
    /\ \E i, j, k \in 1..Len(prev_buffer) :
          /\ RLt(One, prev_buffer[i])
          /\ RLt(prev_buffer[j], <<-1, 1>>)
          /\ prev_buffer[k] # Zero /\ mix_buffer[k] = prev_buffer[k]

\* C9: no render ends in a division by a zero threshold.
C9_NoDivisionByZero == error # "ZeroDivisionError"

\* ------------------------------------------------- claims on the encoder
\* The signed 16-bit value of two little-endian bytes.
DecodeInt16(lo, hi) ==
    LET u == lo + 256 * hi IN IF u >= 32768 THEN u - 65536 ELSE u

\* v is x truncated toward zero.
IsTruncOf(v, x) ==
    /\ Abs(v) * x[2] <= Abs(x[1])
    /\ Abs(x[1]) < (Abs(v) + 1) * x[2]
    /\ (x[1] >= 0 => v >= 0) /\ (x[1] <= 0 => v <= 0)

\* C10: _buffer_to_bytes never fails; for n samples it returns 2n bytes, the
\* k-th little-endian 16-bit value being the sample clamped to [-1, 1], times
\* 32767, truncated toward zero; the value lies in -32767..32767 and
\* value/32767 is within less than 1/32767 of the clamped sample.
C10_EncodingIsClampedTruncation ==
    /\ error # "struct.error"
    /\ rpc = "returned" =>
        /\ Len(audio_bytes) = 2 * Len(mix_buffer)
        /\ \A k \in 1..Len(mix_buffer) :
              LET lo == audio_bytes[2 * k - 1]
                  hi == audio_bytes[2 * k]
                  v == DecodeInt16(lo, hi)
                  s == mix_buffer[k]
                  c == IF RLt(One, s) THEN One
                       ELSE IF RLt(s, <<-1, 1>>) THEN <<-1, 1>> ELSE s
              IN  /\ lo \in 0..255 /\ hi \in 0..255
                  /\ IsTruncOf(v, <<c[1] * 32767, c[2]>>)
                  /\ v >= -32767 /\ v <= 32767
                  /\ RLt(RAbs(RSub(<<v, 32767>>, c)), <<1, 32767>>)

\* Three samples encoded: one above 1, one negative fraction, one positive fraction.
C10_Witness ==
    /\ rpc = "returned" /\ Len(mix_buffer) = 3 /\ Len(audio_bytes) = 6
    /\ \E i, j, k \in 1..3 :
          /\ RLt(One, mix_buffer[i])
          /\ RLt(mix_buffer[j], Zero) /\ mix_buffer[j][2] # 1
          /\ RLt(Zero, mix_buffer[k]) /\ mix_buffer[k][2] # 1

\* ============================================================ save_to_wav
\* wave.open(self.name, 'w') and setparams (lines 178-179), reached once
\* render_track has returned raw_data (line 177).
OpenWav_before_render ==
    /\ rpc = "start"
    /\ wav_file = "absent"
    /\ wav_file' = "open"
    /\ UNCHANGED <<wav_frames, xvars, rvars, pvars, lvars, gvars>>

OpenWav ==
    /\ rpc = "returned"
    /\ wav_file = "absent"
    /\ wav_file' = "open"
    /\ UNCHANGED <<wav_frames, xvars, rvars, pvars, lvars, gvars>>

\* wav_file.writeframes(raw_data) and close (lines 180-182).
WriteFrames ==
    /\ rpc = "returned"
    /\ wav_file = "open"
    /\ wav_frames' = audio_bytes
    /\ wav_file' = "closed"
    /\ UNCHANGED <<xvars, rvars, pvars, lvars, gvars>>

\* The notes of the scores saved in the model: the one-second notes.
SaveNotes == {n \in NoteDomain : n.duration = One}

\* Score.save_to_wav is called on a score with notes and effects configured.
InitSave ==
    /\ ExtractIdle
    /\ FileIdle /\ ParseIdle /\ LoopIdle /\ GuiIdle
    /\ rpc = "start"
    /\ track \in SeqsUpTo(SaveNotes, MaxNotes)
    /\ sample_rate \in {2}
    /\ oscillator \in {"sine", "saw"}
    /\ effects \in SeqsUpTo(EffectDomain, MaxEffects)
    /\ mix_buffer = <<>>
    /\ n_mixed = 0
    /\ n_applied = 0
    /\ audio_bytes = <<>>
    /\ error = "none"
    /\ broke = FALSE
    /\ prev_buffer = <<>>

NextSave ==
    \/ RenderEmpty
    \/ Allocate
    \/ MixNote
    \/ ApplyEffect
    \/ Encode
    \/ OpenWav
    \/ WriteFrames

SpecSave == InitSave /\ [][NextSave]_vars

\* ------------------------------------------------- claims on save_to_wav
\* The buffer after the effects es[k..] have run, in order, on buffer; the
\* buffer is <<>> when one of them raised.
RECURSIVE ChainFrom(_, _, _, _)
ChainFrom(buffer, es, sr, k) ==
    IF k > Len(es) THEN [buffer |-> buffer, error |-> "none"]
    ELSE LET r == EffectApply(es[k], buffer, sr)
         IN  IF r.error # "none" THEN [buffer |-> <<>>, error |-> r.error]
             ELSE ChainFrom(r.buffer, es, sr, k + 1)

\* C11: the phases of save_to_wav run strictly in order.  A note is mixed
\* only before any effect; an effect runs only once every note is mixed, the
\* effects run one at a time in list order, each on the whole output of the
\* one before; render_track returns only after the last effect, with the
\* encoding of the whole chain's output (an empty note list returns no bytes
\* at once, no effect being run); the file is opened only after that
\* return and holds exactly the encoded bytes once closed; after a failure
\* no file was opened and nothing was written.
C11_Step ==
    /\ n_mixed' # n_mixed =>
          /\ n_applied = 0 /\ audio_bytes = <<>> /\ wav_file = "absent"
    /\ n_applied' # n_applied =>
          /\ n_mixed = Len(track) /\ n_applied' = n_applied + 1
          /\ audio_bytes = <<>> /\ wav_file = "absent"
          /\ prev_buffer' = mix_buffer
          /\ mix_buffer = ChainFrom(RenderMix(track, sample_rate, oscillator),
                                    SubSeq(effects, 1, n_applied), sample_rate, 1).buffer
    /\ (rpc # "returned" /\ rpc' = "returned" /\ track = <<>>) =>
          /\ n_applied = 0 /\ audio_bytes' = <<>> /\ wav_file = "absent"
    /\ (rpc # "returned" /\ rpc' = "returned" /\ track # <<>>) =>
          /\ n_applied = Len(effects) /\ n_mixed = Len(track)
          /\ wav_file = "absent"
          /\ LET chain == ChainFrom(RenderMix(track, sample_rate, oscillator),
                                    effects, sample_rate, 1)
             IN  /\ chain.error = "none"
                 /\ audio_bytes' = buffer_to_bytes(chain.buffer).bytes
    /\ wav_file' # "absent" => (rpc' = "returned" /\ error' = "none")
    /\ wav_file' = "closed" => wav_frames' = audio_bytes'
    /\ wav_file' # "closed" => wav_frames' = <<>>
    /\ (error' # "none" \/ rpc' = "raised") =>
          (wav_file' = "absent" /\ wav_frames' = <<>>)

MaxNameLen == 4

\* Characters of the modelled names: pitch letters, a letter that is no pitch,
\* the accidentals, octave digits and a character that is none of these.
NameChars == {"C", "A", "H", "#", "b", "4", "0", "x"}

REST == <<"R", "E", "S", "T">>

\* 0.0 Hz; every other frequency is a pair <<440, e>> standing for 440 * 2^(e/12).
ZeroHz == <<0, 0>>

\* The keys of the semitones table (line 19).
PitchClasses ==
    {<<"C">>, <<"C", "#">>, <<"D", "b">>, <<"D">>, <<"D", "#">>, <<"E", "b">>,
     <<"E">>, <<"F">>, <<"F", "#">>, <<"G", "b">>, <<"G">>, <<"G", "#">>,
     <<"A", "b">>, <<"A">>, <<"A", "#">>, <<"B", "b">>, <<"B">>}

\* semitones[note_str] for a key of the table.
semitones(note_str) ==
    CASE note_str = <<"C">> -> 0
      [] note_str \in {<<"C", "#">>, <<"D", "b">>} -> 1
      [] note_str = <<"D">> -> 2
      [] note_str \in {<<"D", "#">>, <<"E", "b">>} -> 3
      [] note_str = <<"E">> -> 4
      [] note_str = <<"F">> -> 5
      [] note_str \in {<<"F", "#">>, <<"G", "b">>} -> 6
      [] note_str = <<"G">> -> 7
      [] note_str \in {<<"G", "#">>, <<"A", "b">>} -> 8
      [] note_str = <<"A">> -> 9
      [] note_str \in {<<"A", "#">>, <<"B", "b">>} -> 10
      [] note_str = <<"B">> -> 11

DigitChars == {"0", "1", "2", "3", "4", "5", "6", "7", "8", "9"}

\* int(c) for a digit character c.
IntOfChar(c) ==
    CASE c = "0" -> 0 [] c = "1" -> 1 [] c = "2" -> 2 [] c = "3" -> 3
      [] c = "4" -> 4 [] c = "5" -> 5 [] c = "6" -> 6 [] c = "7" -> 7
      [] c = "8" -> 8 [] c = "9" -> 9

\* Lines 25-29 once note_str and the octave character are picked: int() of a
\* non-digit raises ValueError, an unknown note_str raises KeyError, and the
\* bare except turns both into 0.0.
FreqOf(note_str, octave_char) ==
    IF octave_char \notin DigitChars THEN ZeroHz
    ELSE IF note_str \notin PitchClasses THEN ZeroHz
    ELSE LET octave == IntOfChar(octave_char)
             absolute_semitone == (octave * 12) + semitones(note_str)
         IN  <<440, absolute_semitone - 57>>

\* Note.get_freq (lines 16-29).  A name shorter than two characters raises
\* IndexError in the else branch, which the bare except turns into 0.0.
get_freq(n) ==
    IF n = REST THEN ZeroHz
    ELSE IF Len(n) = 3 THEN FreqOf(SubSeq(n, 1, 2), n[3])
    ELSE IF Len(n) < 2 THEN ZeroHz
    ELSE FreqOf(<<n[1]>>, n[2])

\* Note.get_freq is called on a name.
InitNames ==
    /\ ExtractIdle
    /\ RenderIdle /\ FileIdle /\ LoopIdle /\ GuiIdle
    /\ note_name \in SeqsUpTo(NameChars, MaxNameLen) \cup {REST}
    /\ note_freq = "pending"

GetFreq ==
    /\ note_freq = "pending"
    /\ note_freq' = get_freq(note_name)
    /\ UNCHANGED <<note_name, xvars, rvars, fvars, lvars, gvars>>

NextNames == GetFreq

SpecNames == InitNames /\ [][NextNames]_vars

\* ------------------------------------------------- claims on get_freq
\* A name as the claim wants it: a known pitch class (a letter, or a letter
\* with '#' or 'b') followed by one octave digit, and nothing else.
WellFormedName(n) ==
    /\ Len(n) \in {2, 3}
    /\ SubSeq(n, 1, Len(n) - 1) \in PitchClasses
    /\ n[Len(n)] \in DigitChars

\* C12: get_freq returns 0.0 for every name that is not 'REST' and not well
\* formed (unknown pitch class, non-numeric octave, unexpected length).
C12_MalformedGivesZero ==
    (note_freq # "pending" /\ note_name # REST /\ ~WellFormedName(note_name)) =>
        note_freq = ZeroHz

\* ==================================================== the loop of _mix_note
\* Longest note, in samples, stepped through sample by sample.
MaxDur == 5

\* Largest attack / release sample count the envelope is evaluated for.
MaxRamp == 3

\* Sample rates low enough that attack = release = int(sample_rate * 0.01) is
\* 0, 1, 2 or 3 samples.
LoopRates == {50, 100, 200, 300}

\* Note frequencies in Hz.  With these and LoopRates, frequency * i / sample_rate
\* is a multiple of 1/2 only at i = 0, the one place where the float sine is
\* exactly 0.0 (math.sin of a non-zero multiple of pi is a tiny non-zero float).
LoopFreqs == {<<7, 1>>, <<33, 1>>}

\* One run of the loop: the oscillator, the rate, the note's frequency and
\* dur_samples = int(note.duration * sample_rate) (line 115).
LoopInputs ==
    [oscillator : Oscillators, sample_rate : LoopRates,
     frequency : LoopFreqs, dur_samples : 1..MaxDur]

\* _mix_note is entered; the buffer render_track allocated holds the note.
InitMixLoop ==
    /\ ExtractIdle
    /\ RenderIdle /\ FileIdle /\ ParseIdle /\ GuiIdle
    /\ loop_in \in LoopInputs
    /\ loop_i = 0
    /\ loop_out = <<>>

\* One iteration of the for loop (lines 124-151): wave and env of sample loop_i.
MixSample ==
    /\ loop_in # <<>>
    /\ loop_i < loop_in.dur_samples
    /\ LET attack == Samples(<<1, 100>>, loop_in.sample_rate)
           release == Samples(<<1, 100>>, loop_in.sample_rate)
           t == Rat(loop_i, loop_in.sample_rate)
       IN  loop_out' = [wave |-> Oscillator(loop_in.oscillator, loop_in.frequency, t),
                        env |-> Envelope(loop_i, loop_in.dur_samples, attack, release)]
    /\ loop_i' = loop_i + 1
    /\ UNCHANGED <<loop_in, xvars, rvars, fvars, pvars, gvars>>

NextMixLoop == MixSample

SpecMixLoop == InitMixLoop /\ [][NextMixLoop]_vars

\* ------------------------------------------------ claims on the loop
\* A gain that was computed by a division by a positive count and lies in [0, 1].
InUnit(g) == g[2] > 0 /\ RLe(Zero, g) /\ RLe(g, One)

\* The sample the last iteration worked on.
LastIndex == loop_i - 1

\* The int(sample_rate * 0.01) of the run.
Ramp == Samples(<<1, 100>>, loop_in.sample_rate)

\* C13: the envelope gain of every sample 0 <= i < dur_samples is in [0, 1] and
\* divides by no zero count: for the attack and release counts of the run, and
\* for every pair of attack and release counts >= 0 at that sample of that note.
C13_EnvelopeInUnit ==
    loop_out # <<>> =>
        /\ LastIndex \in 0..(loop_in.dur_samples - 1)
        /\ InUnit(loop_out.env)
        /\ \A attack, release \in 0..MaxRamp :
               InUnit(Envelope(LastIndex, loop_in.dur_samples, attack, release))

\* A note shorter than attack + release, at a sample of its release ramp with
\* a gain strictly between 0 and 1.
C13_Witness ==
    /\ loop_out # <<>>
    /\ Ramp + Ramp > loop_in.dur_samples
    /\ LastIndex >= Ramp
    /\ LastIndex > loop_in.dur_samples - Ramp
    /\ RLt(Zero, loop_out.env) /\ RLt(loop_out.env, One)

\* The sine under the square wave of the last sample.
LastSine == SinTurns(RMul(loop_in.frequency, Rat(LastIndex, loop_in.sample_rate)))

\* C14: the square oscillator is +1 where the sine is 0 or positive and -1
\* where it is negative.
C14_SquareZeroIsPlusOne ==
    (loop_out # <<>> /\ loop_in.oscillator = "square") =>
        /\ RLe(Zero, LastSine) => loop_out.wave = One
        /\ RLt(LastSine, Zero) => loop_out.wave = RNeg(One)

\* ============================================================ MidiToWavGUI
\* Worker threads started over the life of the window.
MaxClicks == 3

\* Contents of the Source entry: empty, or the path of some file.
Paths == {"", "song.mid"}

\* Where a worker is in generate_audio_logic: before extract_midi_data (line
\* 91), before save_to_wav (94), before one of the three root.after calls
\* (98, 100, 103), inside the except block after its root.after with e still
\* bound, or past the end of the function.  A worker counts as running until
\* its root.after call returns: the rest of the function is only its return.
Running(t) == threads[t] \notin {"in_except", "done"}

\* The callbacks that ran for thread t.
RanFor(t) == {k \in 1..Len(callbacks) : callbacks[k].thread = t}

\* The scheduled callbacks of thread t that Tk has not run yet.
PendingFor(t) == {k \in 1..Len(after_queue) : after_queue[k].thread = t}

InitGui ==
    /\ ExtractIdle
    /\ RenderIdle /\ FileIdle /\ ParseIdle /\ LoopIdle
    /\ GuiIdle

\* The user types into the Source entry or picks a file in browse_midi.
SetPath(p) ==
    /\ midi_path # p
    /\ midi_path' = p
    /\ UNCHANGED <<btn_generate, btn_visualize, btn_play, threads, after_queue, callbacks>>
    /\ UNCHANGED <<xvars, rvars, fvars, pvars, lvars>>

\* start_generation_thread as it is written: the button is disabled before
\* the thread starts.  Tk delivers no click to a disabled button.
start_generation_thread ==
    IF midi_path = ""
    THEN UNCHANGED <<btn_generate, threads>>
    ELSE /\ btn_generate' = "disabled"
         /\ threads' = Append(threads, "extract")

\* A click on Generate.
ClickGenerate ==
    /\ btn_generate = "normal"
    /\ Len(threads) < MaxClicks
    /\ start_generation_thread
    /\ UNCHANGED <<midi_path, btn_visualize, btn_play, after_queue, callbacks>>
    /\ UNCHANGED <<xvars, rvars, fvars, pvars, lvars>>

\* Line 91: extract_midi_data returns a score, returns None, or raises (a
\* file that is no MIDI file raises out of mido.MidiFile).
Extract(t) ==
    /\ t \in 1..Len(threads) /\ threads[t] = "extract"
    /\ \E next \in {"save", "after_error", "after_except"} :
           threads' = [threads EXCEPT ![t] = next]
    /\ UNCHANGED <<midi_path, btn_generate, btn_visualize, btn_play, after_queue, callbacks>>
    /\ UNCHANGED <<xvars, rvars, fvars, pvars, lvars>>

\* Line 94: save_to_wav returns or raises.
Save(t) ==
    /\ t \in 1..Len(threads) /\ threads[t] = "save"
    /\ \E next \in {"after_success", "after_except"} :
           threads' = [threads EXCEPT ![t] = next]
    /\ UNCHANGED <<midi_path, btn_generate, btn_visualize, btn_play, after_queue, callbacks>>
    /\ UNCHANGED <<xvars, rvars, fvars, pvars, lvars>>

\* Line 98: root.after(0, self.on_conversion_success), then the function ends.
AfterSuccess(t) ==
    /\ t \in 1..Len(threads) /\ threads[t] = "after_success"
    /\ after_queue' = Append(after_queue, [thread |-> t, callback |-> "on_conversion_success"])
    /\ threads' = [threads EXCEPT ![t] = "done"]
    /\ UNCHANGED <<midi_path, btn_generate, btn_visualize, btn_play, callbacks>>
    /\ UNCHANGED <<xvars, rvars, fvars, pvars, lvars>>

\* Line 100: root.after(0, lambda: self.on_conversion_error("Extraction failed")).
AfterError(t) ==
    /\ t \in 1..Len(threads) /\ threads[t] = "after_error"
    /\ after_queue' = Append(after_queue, [thread |-> t, callback |-> "lambda_extraction_failed"])
    /\ threads' = [threads EXCEPT ![t] = "done"]
    /\ UNCHANGED <<midi_path, btn_generate, btn_visualize, btn_play, callbacks>>
    /\ UNCHANGED <<xvars, rvars, fvars, pvars, lvars>>

\* Line 103: root.after(0, lambda: self.on_conversion_error(str(e))); the
\* worker is still inside the except block, e is bound.
AfterExcept(t) ==
    /\ t \in 1..Len(threads) /\ threads[t] = "after_except"
    /\ after_queue' = Append(after_queue, [thread |-> t, callback |-> "lambda_str_e"])
    /\ threads' = [threads EXCEPT ![t] = "in_except"]
    /\ UNCHANGED <<midi_path, btn_generate, btn_visualize, btn_play, callbacks>>
    /\ UNCHANGED <<xvars, rvars, fvars, pvars, lvars>>

\* The end of the except block (line 102, "except Exception as e"): Python
\* unbinds e, the variable the scheduled lambda closes over.
LeaveExcept(t) ==
    /\ t \in 1..Len(threads) /\ threads[t] = "in_except"
    /\ threads' = [threads EXCEPT ![t] = "done"]
    /\ UNCHANGED <<midi_path, btn_generate, btn_visualize, btn_play, after_queue, callbacks>>
    /\ UNCHANGED <<xvars, rvars, fvars, pvars, lvars>>

\* on_conversion_success (lines 105-109).
on_conversion_success(t) ==
    /\ btn_generate' = "normal"
    /\ btn_visualize' = "normal"
    /\ btn_play' = "normal"
    /\ callbacks' = Append(callbacks, [thread |-> t, callback |-> "on_conversion_success"])

\* on_conversion_error (lines 111-113).
on_conversion_error(t) ==
    /\ btn_generate' = "normal"
    /\ UNCHANGED <<btn_visualize, btn_play>>
    /\ callbacks' = Append(callbacks, [thread |-> t, callback |-> "on_conversion_error"])

\* Tk's main loop runs the oldest scheduled callback.  The lambda of line 103
\* evaluates str(e) first: once the worker has left its except block e is
\* unbound, the lambda raises NameError, Tk reports it and goes on, and
\* on_conversion_error is not called.
RunCallback ==
    /\ after_queue # <<>>
    /\ LET cb == Head(after_queue)
       IN  IF cb.callback = "on_conversion_success"
           THEN on_conversion_success(cb.thread)
           ELSE IF cb.callback = "lambda_extraction_failed"
           THEN on_conversion_error(cb.thread)
           ELSE IF threads[cb.thread] = "in_except"
           THEN on_conversion_error(cb.thread)
           ELSE UNCHANGED <<btn_generate, btn_visualize, btn_play, callbacks>>
    /\ after_queue' = Tail(after_queue)
    /\ UNCHANGED <<midi_path, threads>>
    /\ UNCHANGED <<xvars, rvars, fvars, pvars, lvars>>

WorkerStep(t) ==
    \/ Extract(t)
    \/ Save(t)
    \/ AfterSuccess(t)
    \/ AfterError(t)
    \/ AfterExcept(t)
    \/ LeaveExcept(t)

NextGui ==
    \/ \E p \in Paths : SetPath(p)
    \/ ClickGenerate
    \/ \E t \in 1..MaxClicks : WorkerStep(t)
    \/ RunCallback

\* A started thread keeps running until its function ends, and the main loop
\* keeps running scheduled callbacks; the user owes nothing.
FairGui ==
    /\ \A t \in 1..MaxClicks : WF_vars(WorkerStep(t))
    /\ WF_vars(RunCallback)

SpecGui == InitGui /\ [][NextGui]_vars /\ FairGui

\* ------------------------------------------------- claims on the GUI
\* At most one worker runs, and Generate is disabled while a worker runs or
\* its callback is still scheduled.
OneWorker ==
    /\ \A t, u \in 1..Len(threads) : (Running(t) /\ Running(u)) => t = u
    /\ \A t \in 1..Len(threads) :
           (Running(t) \/ PendingFor(t) # {}) => btn_generate = "disabled"
    /\ \A t \in 1..Len(threads) : Count(RanFor(t)) <= 1

\* C15: at most one generation worker runs at any time, Generate staying
\* disabled from the click that starts it until its callback runs; every
\* callback re-enables Generate; and every started worker eventually gets
\* exactly one of on_conversion_success / on_conversion_error.
C15_OneWorkerOneCallback ==
    /\ []OneWorker
    /\ [][callbacks' # callbacks => btn_generate' = "normal"]_vars
    /\ \A t \in 1..MaxClicks :
           [](Len(threads) >= t => <>(Count(RanFor(t)) = 1))

====
